---- MODULE Spec2Model ----
(***************************************************************************)
(* Caching proxy (assaidy/caching-proxy).                                  *)
(*                                                                         *)
(* Two builds of the proxy exist: src/main.go caches in an in-memory TTL   *)
(* store (package github.com/assaidy/caches/cache, imported, its source is *)
(* not part of the tree) and src/unnamed/part_000 caches on disk           *)
(* (DeskCache).  The module models the disk backend and the request        *)
(* handler from their source, and the TTL store from the design document.  *)
(*                                                                         *)
(* Text (file contents, header names and values, bodies) is a sequence of  *)
(* one-character strings.                                                  *)
(***************************************************************************)
EXTENDS Integers, Sequences, FiniteSets, TLC

----------------------------------------------------------------------------
(* Bounds *)

\* largest number of values under one header name
MaxVals == 2
\* largest length of one header value
MaxValLen == 1
\* largest body length
MaxBody == 2

----------------------------------------------------------------------------
(* Text helpers *)

Comma == ","
Newline == "\n"

Digits == <<"0", "1", "2", "3", "4", "5", "6", "7", "8", "9">>

\* all sequences over S of length at most n
SeqsUpTo(S, n) == UNION {[1..m -> S] : m \in 0..n}

RECURSIVE ItoaNat(_)
ItoaNat(n) ==
    IF n < 10 THEN <<Digits[n + 1]>>
    ELSE ItoaNat(n \div 10) \o <<Digits[(n % 10) + 1]>>

\* strconv.Itoa
Itoa(n) == IF n < 0 THEN <<"-">> \o ItoaNat(-n) ELSE ItoaNat(n)

IsDigit(c) == \E i \in 1..10 : Digits[i] = c
DigitVal(c) == (CHOOSE i \in 1..10 : Digits[i] = c) - 1

RECURSIVE AtoiNat(_)
AtoiNat(s) ==
    IF Len(s) = 0 THEN 0
    ELSE 10 * AtoiNat(SubSeq(s, 1, Len(s) - 1)) + DigitVal(s[Len(s)])

\* strconv.Atoi with the error dropped (`ce.StatusCode, _ = strconv.Atoi(..)`):
\* a syntax error yields 0
Atoi(s) ==
    LET signed == Len(s) > 0 /\ s[1] \in {"-", "+"}
        ds     == IF signed THEN SubSeq(s, 2, Len(s)) ELSE s
    IN  IF Len(ds) = 0 \/ \E i \in 1..Len(ds) : ~IsDigit(ds[i]) THEN 0
        ELSE IF signed /\ s[1] = "-" THEN 0 - AtoiNat(ds)
        ELSE AtoiNat(ds)

\* strings.Split(s, sep) for a one-character separator
RECURSIVE Split(_, _)
Split(s, sep) ==
    IF \E i \in 1..Len(s) : s[i] = sep
    THEN LET i == CHOOSE i \in 1..Len(s) :
                     s[i] = sep /\ \A j \in 1..(i - 1) : s[j] # sep
         IN  <<SubSeq(s, 1, i - 1)>> \o Split(SubSeq(s, i + 1, Len(s)), sep)
    ELSE <<s>>

\* textproto.CanonicalMIMEHeaderKey over the letters of the model (no "-"
\* occurs in a name): first letter upper case, the others lower case
Upper(c) == IF c = "x" THEN "X" ELSE c
Lower(c) == IF c = "X" THEN "x" ELSE c
CanonicalMIMEHeaderKey(k) ==
    [i \in 1..Len(k) |-> IF i = 1 THEN Upper(k[i]) ELSE Lower(k[i])]

\* http.Header.Add: append val under the canonical form of key
HeaderAdd(h, key, val) ==
    LET ck == CanonicalMIMEHeaderKey(key)
    IN  [n \in (DOMAIN h) \cup {ck} |->
            IF n = ck
            THEN (IF ck \in DOMAIN h THEN Append(h[ck], val) ELSE <<val>>)
            ELSE h[n]]

\* the empty header map, make(http.Header)
EmptyHeader == [n \in {} |-> <<>>]

----------------------------------------------------------------------------
(* Cache entries *)

StatusCodes == {200, 404}
HeaderNames == {<<"X">>, <<"x">>}
ValueChars == {"x", Comma, Newline}
HeaderValues == SeqsUpTo(ValueChars, MaxValLen)
ValueLists == SeqsUpTo(HeaderValues, MaxVals)
Bodies == SeqsUpTo({"x"}, MaxBody)

\* every header multimap over subsets of HeaderNames
HeaderMaps == UNION {[D -> ValueLists] : D \in SUBSET HeaderNames}

\* type CacheEntry struct
CacheEntry == [StatusCode : StatusCodes, Body : Bodies, Headers : HeaderMaps]

----------------------------------------------------------------------------
(* Disk encoding: DeskCache *)

\* a path with no file behind it (no character of a file is "NoFile")
NoFile == <<"NoFile">>

\* the three files of one key's directory, and whether the directory exists
NoDir == [dir |-> FALSE, status |-> NoFile, headers |-> NoFile, body |-> NoFile]

\* all orders in which `for k, vv := range ce.Headers` can visit the names
NameOrders(h) ==
    {o \in [1..Cardinality(DOMAIN h) -> DOMAIN h] :
        \A i, j \in DOMAIN o : i # j => o[i] # o[j]}

RECURSIVE JoinValues(_)
\* "," + v for every value of one name
JoinValues(vv) ==
    IF Len(vv) = 0 THEN <<>>
    ELSE <<Comma>> \o Head(vv) \o JoinValues(Tail(vv))

RECURSIVE HeadersStr(_, _)
\* headersStr of storeEntryData, visiting the names in order o
HeadersStr(h, o) ==
    IF Len(o) = 0 THEN <<>>
    ELSE Head(o) \o JoinValues(h[Head(o)]) \o <<Newline>> \o HeadersStr(h, Tail(o))

RECURSIVE AddAll(_, _, _)
\* for _, val := range header[1:] { ce.Headers.Add(key, val) }
AddAll(h, key, vals) ==
    IF Len(vals) = 0 THEN h
    ELSE AddAll(HeaderAdd(h, key, Head(vals)), key, Tail(vals))

RECURSIVE ParseLines(_, _)
ParseLines(h, lines) ==
    IF Len(lines) = 0 THEN h
    ELSE LET header == Split(Head(lines), Comma)
         IN  ParseLines(AddAll(h, header[1], Tail(header)), Tail(lines))

\* the header loop of DeskCache.Get over the content of the headers file
ParseHeaders(cont) == ParseLines(EmptyHeader, Split(cont, Newline))

----------------------------------------------------------------------------
(* DeskCache.Get *)

ZeroEntry == [StatusCode |-> 0, Body |-> <<>>, Headers |-> EmptyHeader]

\* ce := CacheEntry{Headers: make(http.Header)} at the start of Get
GetStart == [pc |-> "readStatus", ce |-> ZeroEntry, found |-> FALSE]

\* GetStep with the error of reading the headers file ignored
GetStepUncheckedHeaders(g, d, ok) ==
    CASE g.pc = "readStatus" ->
           IF d.status = NoFile \/ ~ok
           THEN [g EXCEPT !.pc = "done", !.found = FALSE]
           ELSE [g EXCEPT !.pc = "readHeaders",
                          !.ce.StatusCode = Atoi(d.status)]
      [] g.pc = "readHeaders" ->
           IF d.headers = NoFile \/ ~ok
           THEN [g EXCEPT !.pc = "readBody"]
           ELSE [g EXCEPT !.pc = "readBody",
                          !.ce.Headers = ParseHeaders(d.headers)]
      [] g.pc = "readBody" ->
           IF d.body = NoFile \/ ~ok
           THEN [g EXCEPT !.pc = "done", !.found = FALSE]
           ELSE [g EXCEPT !.pc = "done", !.found = TRUE, !.ce.Body = d.body]
      [] OTHER -> g

\* One os.ReadFile of DeskCache.Get on directory d, with the statements that
\* follow it.  ok = FALSE: the read fails although the file is there.
GetStep(g, d, ok) ==
    CASE g.pc = "readStatus" ->
           IF d.status = NoFile \/ ~ok
           THEN [g EXCEPT !.pc = "done", !.found = FALSE]
           ELSE [g EXCEPT !.pc = "readHeaders",
                          !.ce.StatusCode = Atoi(d.status)]
      [] g.pc = "readHeaders" ->
           IF d.headers = NoFile \/ ~ok
           THEN [g EXCEPT !.pc = "done", !.found = FALSE]
           ELSE [g EXCEPT !.pc = "readBody",
                          !.ce.Headers = ParseHeaders(d.headers)]
      [] g.pc = "readBody" ->
           IF d.body = NoFile \/ ~ok
           THEN [g EXCEPT !.pc = "done", !.found = FALSE]
           ELSE [g EXCEPT !.pc = "done", !.found = TRUE, !.ce.Body = d.body]
      [] OTHER -> g

\* A whole DeskCache.Get on directory d with nobody else stepping in between:
\* (entry, found).  failAt = i: the i-th os.ReadFile fails; 0: none does.
RunGet(d, failAt) ==
    LET g1 == GetStep(GetStart, d, failAt # 1)
        g2 == GetStep(g1, d, failAt # 2)
        g3 == GetStep(g2, d, failAt # 3)
    IN  [found |-> g3.found, ce |-> IF g3.found THEN g3.ce ELSE ZeroEntry]

\* DeskCache.Get on a readable directory
DeskCacheGet(d) == RunGet(d, 0)

----------------------------------------------------------------------------
(* DeskCache.Set *)

\* os.Create: the file exists and is empty afterwards
CreateFile(d, f) == [d EXCEPT ![f] = <<>>]

\* file.WriteString through the descriptor os.Create returned: the content
\* reaches the path only while the file is still linked there
WriteString(d, f, content) ==
    IF d[f] = NoFile THEN d ELSE [d EXCEPT ![f] = content]

\* os.MkdirAll(entryDir, 0755)
MkdirAll(d) == [d EXCEPT !.dir = TRUE]

\* the content storeEntryData writes to file f of entry ce
FileContent(ce, hs, f) ==
    CASE f = "status"  -> Itoa(ce.StatusCode)
      [] f = "headers" -> hs
      [] f = "body"    -> ce.Body

NextFile(f) == CASE f = "status" -> "headers" [] f = "headers" -> "body" [] OTHER -> "none"

\* Set(key, ce) before its first system call; hs is headersStr
SetStart(ce, hs) == [pc |-> "mkdir", val |-> ce, hs |-> hs, file |-> "none", err |-> FALSE]

\* One system call of DeskCache.Set on directory d with the statements that
\* follow it: os.MkdirAll in Set, then os.Create and file.WriteString of
\* createAndWriteFile for the three files of storeEntryData.
\* ok = FALSE: the call fails.  A failed MkdirAll ends in log.Fatalf
\* (pc "fatal"); a failed Create or WriteString makes Set return the error
\* (pc "done", err) and leaves the files as they are at that point.
SetStep(s, d, ok) ==
    CASE s.pc = "mkdir" ->
           IF ok
           THEN [s |-> [s EXCEPT !.pc = "create", !.file = "status"], d |-> MkdirAll(d)]
           ELSE [s |-> [s EXCEPT !.pc = "fatal"], d |-> d]
      [] s.pc = "create" ->
           IF ok /\ d.dir
           THEN [s |-> [s EXCEPT !.pc = "write"], d |-> CreateFile(d, s.file)]
           ELSE [s |-> [s EXCEPT !.pc = "done", !.err = TRUE], d |-> d]
      [] s.pc = "write" ->
           IF ok
           THEN [s |-> IF s.file = "body"
                       THEN [s EXCEPT !.pc = "done", !.err = FALSE]
                       ELSE [s EXCEPT !.pc = "create", !.file = NextFile(s.file)],
                 d |-> WriteString(d, s.file, FileContent(s.val, s.hs, s.file))]
           ELSE [s |-> [s EXCEPT !.pc = "done", !.err = TRUE], d |-> d]
      [] OTHER -> [s |-> s, d |-> d]

\* the system calls of one Set, in order: MkdirAll, then Create and
\* WriteString for status, headers and body
SetCalls == 1 + 2 * Cardinality({"status", "headers", "body"})

RECURSIVE RunSetFrom(_, _, _, _)
RunSetFrom(s, d, n, failAt) ==
    IF s.pc \in {"done", "fatal"} THEN [s |-> s, d |-> d]
    ELSE LET r == SetStep(s, d, n # failAt)
         IN  RunSetFrom(r.s, r.d, n + 1, failAt)

\* A whole DeskCache.Set(key, ce) on directory d with nobody else stepping in
\* between.  failAt = i: the i-th system call fails; 0: none does.
RunSet(d, ce, hs, failAt) == RunSetFrom(SetStart(ce, hs), d, 1, failAt)

----------------------------------------------------------------------------
(* State *)

VARIABLES
    backend,   \* "disk": the build of part_000 (DeskCache); "ttl": the build of main.go
    dirPath,   \* dc.DirPath, the root directory given to NewDeskCache
    disk,      \* disk[k]: the directory <DirPath>/<k> and its three files
    root,      \* whether the directory DirPath exists
    aborted,   \* the process was ended by log.Fatalf
    ret,       \* the call that has just returned, and what it returned
    stored,    \* stored[k]: the entry of the last Set/Put of k that returned without error,
               \* with no Clear and no deletion of its files since
    cleared,   \* the keys stored before a Clear and not set again since
    store,     \* the map of the TTL store: store[k] is the record of k
    now,       \* the clock
    loop,      \* the cleanup loop started by ScheduleCleanup
    putAt,     \* putAt[k]: the time of the Put that stored[k] comes from
    hs,        \* hs[h]: the goroutine running handleRequests for one request
    rw,        \* cps.mu, the sync.RWMutex of the server
    gs,        \* gs[g]: a goroutine calling the TTL store directly
    mu,        \* the mutex of the TTL store: its holder
    sw,        \* where the cleanup loop is in its sweep
    dc,        \* the *DeskCache in use: its TTL field and which construction it comes from
    first,     \* first[k]: what a Get made right after the last Set of k returns
    setter,    \* a goroutine inside DeskCache.Set, system call by system call
    getter,    \* a goroutine inside DeskCache.Get, file by file
    ctor       \* where NewCachingProxyServer is, and what it has done

Methods == {"GET", "POST"}
Paths == {"/a"}

\* key := fmt.Sprintf("%s-%s", r.Method, r.URL.Path)
Key(m, p) == m \o "-" \o p

Keys == {Key(m, p) : m \in Methods, p \in Paths}
Files == {"status", "headers", "body"}
None == "None"
\* no entry (no entry of the model has this status code)
NoEntry == [StatusCode |-> -1, Body |-> <<>>, Headers |-> EmptyHeader]

\* the entries the callers store
Plain == [StatusCode |-> 200, Body |-> <<"x", "x">>,
          Headers |-> [n \in {<<"X">>} |-> << <<"x">>, <<>> >>]]
Bare  == [StatusCode |-> 404, Body |-> <<>>, Headers |-> EmptyHeader]
Dated == [StatusCode |-> 200, Body |-> <<"x">>,
          Headers |-> [n \in {<<"X">>} |-> << <<Comma>> >>]]
Entries == {Plain, Bare, Dated}

NoRet == [op |-> "none", key |-> None, err |-> FALSE, found |-> FALSE,
          ce |-> ZeroEntry, failAt |-> 0]

\* the roots NewDeskCache is given: "." by NewCachingProxyServer, or a
\* directory of its own
DirPaths == {".", "cache"}

DiskInit ==
    /\ disk = [k \in Keys |-> NoDir]
    /\ root = TRUE
    /\ aborted = FALSE
    /\ ret = NoRet
    /\ stored = [k \in Keys |-> NoEntry]
    /\ cleared = {}

----------------------------------------------------------------------------
(* The disk backend called by one caller at a time *)

\* dc.Set(k, e) whose failAt-th system call fails (0: none)
DeskSetWith(k, e, failAt) ==
    /\ backend = "disk" /\ ~aborted
    /\ \E o \in NameOrders(e.Headers) :
         \E r \in {RunSet(disk[k], e, HeadersStr(e.Headers, o), failAt)} :
             /\ disk' = [disk EXCEPT ![k] = r.d]
             /\ root' = (root \/ r.d.dir)
             /\ aborted' = (r.s.pc = "fatal")
             /\ ret' = IF r.s.pc = "fatal" THEN NoRet
                        ELSE [NoRet EXCEPT !.op = "Set", !.key = k, !.err = r.s.err,
                                           !.failAt = failAt]
             /\ stored' = [stored EXCEPT
                             ![k] = IF r.s.pc = "done" /\ ~r.s.err THEN e ELSE NoEntry]
    /\ cleared' = cleared \ {k}
    /\ UNCHANGED <<backend, store, now, loop, putAt>>

\* dc.Set(k, e)
DeskSet(k, e) == \E failAt \in 0..SetCalls : DeskSetWith(k, e, failAt)

\* dc.Get(k) whose failAt-th os.ReadFile fails (0: none)
DeskGetWith(k, failAt) ==
    /\ backend = "disk" /\ ~aborted
    /\ \E r \in {RunGet(disk[k], failAt)} :
           ret' = [NoRet EXCEPT !.op = "Get", !.key = k, !.found = r.found,
                                !.ce = r.ce, !.failAt = failAt]
    /\ UNCHANGED <<backend, disk, root, aborted, stored, cleared, store, now, loop, putAt>>

\* dc.Get(k)
DeskGet(k) == \E failAt \in 0..3 : DeskGetWith(k, failAt)

\* os.RemoveAll refuses a path that ends in "." with EINVAL and removes
\* nothing
EndsWithDot(path) == path = "."

\* dc.Clear(): os.RemoveAll(dc.DirPath), nil also when DirPath does not exist
DeskClear ==
    /\ backend = "disk" /\ ~aborted
    /\ IF EndsWithDot(dirPath)
       THEN /\ ret' = [NoRet EXCEPT !.op = "Clear", !.err = TRUE]
            /\ UNCHANGED <<disk, root, stored>>
       ELSE /\ disk' = [k \in Keys |-> NoDir]
            /\ root' = FALSE
            /\ ret' = [NoRet EXCEPT !.op = "Clear"]
            /\ stored' = [k \in Keys |-> NoEntry]
    /\ cleared' = cleared \cup {k \in Keys : stored[k] # NoEntry}
    /\ UNCHANGED <<backend, aborted, store, now, loop, putAt>>

\* another process deletes one file of a key
ExternalRemove(k, f) ==
    /\ backend = "disk"
    /\ disk[k][f] # NoFile
    /\ disk' = [disk EXCEPT ![k][f] = NoFile]
    /\ ret' = NoRet
    /\ stored' = [stored EXCEPT ![k] = NoEntry]
    /\ UNCHANGED <<backend, root, aborted, cleared, store, now, loop, putAt>>

DiskNext ==
    \/ \E k \in Keys, e \in Entries : DeskSet(k, e)
    \/ \E k \in Keys : DeskGet(k)
    \/ DeskClear
    \/ \E k \in Keys, f \in Files : ExternalRemove(k, f)

----------------------------------------------------------------------------
(* The TTL store, cache.TTLCache of github.com/assaidy/caches: modelled from  *)
(* the design document, sections 4.1, 4.2 and 5; the calls on it are those   *)
(* of main.go                                                                *)

\* the clock stops here
MaxTime == 4

\* cacheTTL of NewCachingProxyServer, in clock ticks
CacheTTL == 2
\* the interval main.go gives to ScheduleCleanup: cacheTTL again
Interval == CacheTTL

NoRecord == [has |-> FALSE, value |-> NoEntry, expiresAt |-> 0]

\* ScheduleCleanup(ctx, interval) at time t: the loop waits for its first tick
LoopStart(t) == [state |-> "running", next |-> t + Interval, cancelled |-> FALSE,
                 cancelAt |-> 0, sweeps |-> 0]

TTLInit ==
    /\ store = [k \in Keys |-> NoRecord]
    /\ now = 0
    /\ loop = LoopStart(0)
    /\ putAt = [k \in Keys |-> 0]

\* the record Put stores at time t
NewRecord(v, t) == [has |-> TRUE, value |-> v, expiresAt |-> t + CacheTTL]

\* Lookup that still returns a record at the instant it expires
LookupInclusive(m, k, t) ==
    IF m[k].has /\ t <= m[k].expiresAt
    THEN [found |-> TRUE, ce |-> m[k].value]
    ELSE [found |-> FALSE, ce |-> ZeroEntry]

\* Get(key) on map m at time t: (value, found)
Lookup(m, k, t) ==
    IF m[k].has /\ t < m[k].expiresAt
    THEN [found |-> TRUE, ce |-> m[k].value]
    ELSE [found |-> FALSE, ce |-> ZeroEntry]

\* Sweep that keeps a record at the instant it expires
SweepStrict(m, t) == [k \in Keys |-> IF m[k].has /\ m[k].expiresAt < t THEN NoRecord ELSE m[k]]

\* one sweep of map m at time t
Sweep(m, t) == [k \in Keys |-> IF m[k].has /\ m[k].expiresAt <= t THEN NoRecord ELSE m[k]]

TTLPut(k, v) ==
    /\ backend = "ttl"
    /\ store' = [store EXCEPT ![k] = NewRecord(v, now)]
    /\ ret' = [NoRet EXCEPT !.op = "Put", !.key = k]
    /\ stored' = [stored EXCEPT ![k] = v]
    /\ putAt' = [putAt EXCEPT ![k] = now]
    /\ cleared' = cleared \ {k}
    /\ UNCHANGED <<backend, disk, root, aborted, now, loop>>

TTLGet(k) ==
    /\ backend = "ttl"
    /\ LET r == Lookup(store, k, now)
       IN  ret' = [NoRet EXCEPT !.op = "Get", !.key = k, !.found = r.found, !.ce = r.ce]
    /\ UNCHANGED <<backend, disk, root, aborted, stored, cleared, store, now, loop, putAt>>

TTLClear ==
    /\ backend = "ttl"
    /\ store' = [k \in Keys |-> NoRecord]
    /\ ret' = [NoRet EXCEPT !.op = "Clear"]
    /\ cleared' = cleared \cup {k \in Keys : stored[k] # NoEntry}
    /\ stored' = [k \in Keys |-> NoEntry]
    /\ putAt' = [k \in Keys |-> 0]
    /\ UNCHANGED <<backend, disk, root, aborted, now, loop>>

\* CleanupWake that takes the tick although the cancellation has fired
CleanupWakeAfterCancel ==
    /\ backend = "ttl"
    /\ loop.state = "running"
    /\ now = loop.next
    /\ store' = [k \in Keys |-> IF store[k].has /\ store[k].expiresAt <= now
                                THEN [has |-> FALSE, value |-> NoEntry, expiresAt |-> 0]
                                ELSE store[k]]
    /\ loop' = [loop EXCEPT !.next = now + Interval, !.sweeps = @ + 1]
    /\ ret' = NoRet
    /\ UNCHANGED <<backend, disk, root, aborted, stored, cleared, now, putAt>>

\* the timer of the loop fires: one sweep, then wait for the next tick
CleanupWake ==
    /\ backend = "ttl"
    /\ loop.state = "running" /\ ~loop.cancelled
    /\ now = loop.next
    /\ store' = Sweep(store, now)
    /\ loop' = [loop EXCEPT !.next = now + Interval, !.sweeps = @ + 1]
    /\ ret' = NoRet
    /\ UNCHANGED <<backend, disk, root, aborted, stored, cleared, now, putAt>>

\* the cancellation signal given to ScheduleCleanup fires
Cancel ==
    /\ backend = "ttl"
    /\ ~loop.cancelled
    /\ loop' = [loop EXCEPT !.cancelled = TRUE, !.cancelAt = now]
    /\ ret' = NoRet
    /\ UNCHANGED <<backend, disk, root, aborted, stored, cleared, store, now, putAt>>

\* the loop sees the cancellation, stops its timer and returns
CleanupExit ==
    /\ backend = "ttl"
    /\ loop.state = "running" /\ loop.cancelled
    /\ loop' = [loop EXCEPT !.state = "stopped"]
    /\ ret' = NoRet
    /\ UNCHANGED <<backend, disk, root, aborted, stored, cleared, store, now, putAt>>

\* time passes; a loop whose timer is due runs before the clock moves on
Tick ==
    /\ backend = "ttl"
    /\ now < MaxTime
    /\ ~(loop.state = "running" /\ now = loop.next)
    /\ now' = now + 1
    /\ ret' = NoRet
    /\ UNCHANGED <<backend, disk, root, aborted, stored, cleared, store, loop, putAt>>

TTLNext ==
    \/ \E k \in Keys, v \in Entries : TTLPut(k, v)
    \/ \E k \in Keys : TTLGet(k)
    \/ TTLClear
    \/ CleanupWake
    \/ Cancel
    \/ CleanupExit
    \/ Tick

----------------------------------------------------------------------------
(* The server: handleRequests, one goroutine per request *)

Handlers == {"h1", "h2"}

\* what the upstream answers
UpstreamResponses == Entries

\* the body http.Error writes
ErrorBody == <<"e", "r", "r">>

\* http.ResponseWriter of one request.  header is w.Header(), the map the
\* handler fills; sent is the copy of it that goes on the wire, taken when
\* WriteHeader is called
NewWriter == [xcache |-> "", header |-> EmptyHeader, wrote |-> FALSE,
              status |-> 0, sentXCache |-> "", sent |-> EmptyHeader, body |-> <<>>]

\* w.Header().Set("X-Cache", v)
SetXCache(w, v) == [w EXCEPT !.xcache = v]

\* w.WriteHeader(code): a code outside 100..999 panics; a second call is ignored
ValidCode(code) == code >= 100 /\ code <= 999
WriteHeader(w, code) ==
    IF w.wrote THEN w
    ELSE [w EXCEPT !.wrote = TRUE, !.status = code, !.sentXCache = w.xcache,
                   !.sent = w.header]

RECURSIVE AddNames(_, _, _)
AddNames(dis, src, names) ==
    IF names = {} THEN dis
    ELSE LET k == CHOOSE n \in names : TRUE
         IN  AddNames(AddAll(dis, k, src[k]), src, names \ {k})

\* copyHeaders(w.Header(), src)
copyHeaders(w, src) == [w EXCEPT !.header = AddNames(w.header, src, DOMAIN src)]

\* w.Write(b): writes the header with 200 first when it was not written yet
Write(w, b) == [WriteHeader(w, 200) EXCEPT !.body = b]

\* http.Error(w, "error forwarding request", http.StatusInternalServerError)
HttpError(w) == Write(WriteHeader(w, 500), ErrorBody)

\* what the client has received when the handler is through
Received(w) == [xcache |-> w.sentXCache, status |-> w.status, headers |-> w.sent,
                body |-> w.body]
NoResponse == [xcache |-> "", status |-> 0, headers |-> EmptyHeader, body |-> <<>>]

IdleHandler == [pc |-> "idle", method |-> None, path |-> None, ok |-> "none",
                e |-> ZeroEntry, fetched |-> FALSE, w |-> NoResponse]

ProxyInit ==
    /\ hs = [h \in Handlers |-> IdleHandler]
    /\ rw = [readers |-> {}, writer |-> None, pending |-> {}]

HKey(h) == Key(hs[h].method, hs[h].path)

\* a request arrives and the server starts handleRequests for it
Request(h, m, p) ==
    /\ ~aborted
    /\ hs[h].pc = "idle"
    /\ hs' = [hs EXCEPT ![h] = [IdleHandler EXCEPT !.pc = "rlock", !.method = m, !.path = p]]
    /\ UNCHANGED <<backend, disk, root, aborted, ret, stored, cleared, store, now, loop,
                   putAt, rw>>

\* cps.mu.RLock(): waits while a writer holds the lock or waits for it
RLock(h) ==
    /\ ~aborted
    /\ hs[h].pc = "rlock"
    /\ rw.writer = None /\ rw.pending = {}
    /\ rw' = [rw EXCEPT !.readers = @ \cup {h}]
    /\ hs' = [hs EXCEPT ![h].pc = "get"]
    /\ UNCHANGED <<backend, disk, root, aborted, ret, stored, cleared, store, now, loop,
                   putAt>>

\* val, ok := cps.Cache.Get(key), on whichever cache the build has
CacheGetCall(k) ==
    \/ \E failAt \in 0..3 : DeskGetWith(k, failAt)
    \/ TTLGet(k)

\* CacheLookup that takes the miss path whatever Get reports
CacheLookupNeverHit(h) ==
    /\ ~aborted
    /\ hs[h].pc = "get"
    /\ CacheGetCall(HKey(h))
    /\ hs' = [hs EXCEPT ![h].ok = IF ret'.found THEN "hit" ELSE "miss",
                        ![h].e = ret'.ce,
                        ![h].pc = "runlock"]
    /\ UNCHANGED rw

\* if val, ok := cps.Cache.Get(key); ok && r.Method == "GET"
CacheLookup(h) ==
    /\ ~aborted
    /\ hs[h].pc = "get"
    /\ CacheGetCall(HKey(h))
    /\ hs' = [hs EXCEPT ![h].ok = IF ret'.found THEN "hit" ELSE "miss",
                        ![h].e = ret'.ce,
                        ![h].pc = IF ret'.found /\ hs[h].method = "GET"
                                  THEN "hit" ELSE "runlock"]
    /\ UNCHANGED rw

\* the body of the if: X-Cache: HIT, WriteHeader, copyHeaders, Write, RUnlock.
\* A panic of WriteHeader leaves the function before RUnlock.
ServeHit(h) ==
    /\ ~aborted
    /\ hs[h].pc = "hit"
    /\ LET val == hs[h].e
           w1  == SetXCache(NewWriter, "HIT")
       IN  IF ValidCode(val.StatusCode)
           THEN /\ hs' = [hs EXCEPT
                            ![h].w = Received(Write(copyHeaders(WriteHeader(w1, val.StatusCode),
                                                                val.Headers), val.Body)),
                            ![h].pc = "done"]
                /\ rw' = [rw EXCEPT !.readers = @ \ {h}]
           ELSE /\ hs' = [hs EXCEPT ![h].pc = "panicked"]
                /\ UNCHANGED rw
    /\ UNCHANGED <<backend, disk, root, aborted, ret, stored, cleared, store, now, loop,
                   putAt>>

\* cps.mu.RUnlock() on the way to the upstream
RUnlock(h) ==
    /\ ~aborted
    /\ hs[h].pc = "runlock"
    /\ rw' = [rw EXCEPT !.readers = @ \ {h}]
    /\ hs' = [hs EXCEPT ![h].pc = "fetch"]
    /\ UNCHANGED <<backend, disk, root, aborted, ret, stored, cleared, store, now, loop,
                   putAt>>

\* how the upstream fetch can end
FetchOutcomes == {"NewRequest fails", "Do fails", "ReadAll fails", "response"}

\* Fetch that goes on to the cache write for every method
FetchCachesAll(h) ==
    /\ ~aborted
    /\ hs[h].pc = "fetch"
    /\ \E resp \in UpstreamResponses :
         hs' = [hs EXCEPT
                  ![h].fetched = TRUE,
                  ![h].e = resp,
                  ![h].w = Received(Write(copyHeaders(WriteHeader(SetXCache(NewWriter, "MISS"),
                                                                  resp.StatusCode),
                                                      resp.Headers), resp.Body)),
                  ![h].pc = "lock"]
    /\ UNCHANGED <<backend, disk, root, aborted, ret, stored, cleared, store, now, loop,
                   putAt, rw>>

\* X-Cache: MISS, http.NewRequest, http.DefaultClient.Do, io.ReadAll, and on
\* success WriteHeader, copyHeaders, Write
Fetch(h) ==
    /\ ~aborted
    /\ hs[h].pc = "fetch"
    /\ \E outcome \in FetchOutcomes, resp \in UpstreamResponses :
         LET w1 == SetXCache(NewWriter, "MISS")
         IN  IF outcome = "response"
             THEN hs' = [hs EXCEPT
                           ![h].fetched = TRUE,
                           ![h].e = resp,
                           ![h].w = Received(Write(copyHeaders(WriteHeader(w1, resp.StatusCode),
                                                               resp.Headers), resp.Body)),
                           ![h].pc = IF hs[h].method = "GET" THEN "lock" ELSE "done"]
             ELSE hs' = [hs EXCEPT
                           ![h].fetched = (outcome # "NewRequest fails"),
                           ![h].e = ZeroEntry,
                           ![h].w = Received(HttpError(w1)),
                           ![h].pc = "done"]
    /\ UNCHANGED <<backend, disk, root, aborted, ret, stored, cleared, store, now, loop,
                   putAt, rw>>

\* cps.mu.Lock() is called: from now on no new reader gets in
LockCall(h) ==
    /\ ~aborted
    /\ hs[h].pc = "lock"
    /\ rw' = [rw EXCEPT !.pending = @ \cup {h}]
    /\ hs' = [hs EXCEPT ![h].pc = "lockwait"]
    /\ UNCHANGED <<backend, disk, root, aborted, ret, stored, cleared, store, now, loop,
                   putAt>>

\* cps.mu.Lock() returns: no reader and no writer is left
LockAcquire(h) ==
    /\ ~aborted
    /\ hs[h].pc = "lockwait"
    /\ rw.readers = {} /\ rw.writer = None
    /\ rw' = [rw EXCEPT !.writer = h, !.pending = @ \ {h}]
    /\ hs' = [hs EXCEPT ![h].pc = "store"]
    /\ UNCHANGED <<backend, disk, root, aborted, ret, stored, cleared, store, now, loop,
                   putAt>>

\* cps.Cache.Set(key, entry) / cps.Cache.Put(key, entry); the error Set
\* returns is dropped
CacheSetCall(k, e) ==
    \/ \E failAt \in 0..SetCalls : DeskSetWith(k, e, failAt)
    \/ TTLPut(k, e)

\* CacheStore that keeps the entry the key already has
CacheStoreFirstWins(h) ==
    /\ ~aborted
    /\ hs[h].pc = "store"
    /\ IF stored[HKey(h)] # NoEntry
       THEN UNCHANGED <<backend, disk, root, aborted, ret, stored, cleared, store, now, loop,
                        putAt>>
       ELSE CacheSetCall(HKey(h), hs[h].e)
    /\ hs' = [hs EXCEPT ![h].pc = IF aborted' THEN "fatal" ELSE "unlock"]
    /\ UNCHANGED rw

CacheStore(h) ==
    /\ ~aborted
    /\ hs[h].pc = "store"
    /\ CacheSetCall(HKey(h), hs[h].e)
    /\ hs' = [hs EXCEPT ![h].pc = IF aborted' THEN "fatal" ELSE "unlock"]
    /\ UNCHANGED rw

\* cps.mu.Unlock()
Unlock(h) ==
    /\ ~aborted
    /\ hs[h].pc = "unlock"
    /\ rw' = [rw EXCEPT !.writer = None]
    /\ hs' = [hs EXCEPT ![h].pc = "done"]
    /\ UNCHANGED <<backend, disk, root, aborted, ret, stored, cleared, store, now, loop,
                   putAt>>

\* handleRequests returns and the response is complete
Return(h) ==
    /\ ~aborted
    /\ hs[h].pc = "done"
    /\ hs' = [hs EXCEPT ![h] = IdleHandler]
    /\ UNCHANGED <<backend, disk, root, aborted, ret, stored, cleared, store, now, loop,
                   putAt, rw>>

\* the clock and the cleanup loop of the TTL build go on beside the handlers
Background == (Tick \/ CleanupWake) /\ UNCHANGED <<hs, rw>>

ProxyNext ==
    \/ \E h \in Handlers, m \in Methods, p \in Paths : Request(h, m, p)
    \/ \E h \in Handlers : RLock(h)
    \/ \E h \in Handlers : CacheLookup(h)
    \/ \E h \in Handlers : ServeHit(h)
    \/ \E h \in Handlers : RUnlock(h)
    \/ \E h \in Handlers : Fetch(h)
    \/ \E h \in Handlers : LockCall(h)
    \/ \E h \in Handlers : LockAcquire(h)
    \/ \E h \in Handlers : CacheStore(h)
    \/ \E h \in Handlers : Unlock(h)
    \/ \E h \in Handlers : Return(h)
    \/ Background

----------------------------------------------------------------------------
(* The TTL store under concurrent callers: every operation and every sweep  *)
(* runs between Lock and Unlock of the one mutex of the store (design       *)
(* document, sections 4.1, 4.2 and 5)                                        *)

Goroutines == {"g1", "g2"}
Sweeper == "sweeper"
Ops == {"Put", "Get", "Clear"}

IdleCaller == [pc |-> "idle", op |-> None, key |-> None, val |-> NoEntry,
               found |-> FALSE, ce |-> ZeroEntry]

ConcInit ==
    /\ gs = [g \in Goroutines |-> IdleCaller]
    /\ mu = None
    /\ sw = "sleep"

\* a goroutine calls Put(k, v), Get(k) or Clear()
ConcCall(g, op, k, v) ==
    /\ gs[g].pc = "idle"
    /\ gs' = [gs EXCEPT ![g] = [IdleCaller EXCEPT
                                  !.pc = "lock", !.op = op,
                                  !.key = IF op = "Clear" THEN None ELSE k,
                                  !.val = IF op = "Put" THEN v ELSE NoEntry]]
    /\ UNCHANGED <<backend, disk, root, aborted, ret, stored, cleared, store, now, loop,
                   putAt, mu, sw>>

\* Lock that does not wait for the holder
ConcLockNoWait(g) ==
    /\ gs[g].pc = "lock"
    /\ mu' = g
    /\ gs' = [gs EXCEPT ![g].pc = "in"]
    /\ UNCHANGED <<backend, disk, root, aborted, ret, stored, cleared, store, now, loop,
                   putAt, sw>>

\* mu.Lock() returns
ConcLock(g) ==
    /\ gs[g].pc = "lock"
    /\ mu = None
    /\ mu' = g
    /\ gs' = [gs EXCEPT ![g].pc = "in"]
    /\ UNCHANGED <<backend, disk, root, aborted, ret, stored, cleared, store, now, loop,
                   putAt, sw>>

\* the operation on the map, inside the lock
ConcBody(g) ==
    /\ gs[g].pc = "in"
    /\ \/ gs[g].op = "Put" /\ TTLPut(gs[g].key, gs[g].val)
       \/ gs[g].op = "Get" /\ TTLGet(gs[g].key)
       \/ gs[g].op = "Clear" /\ TTLClear
    /\ gs' = [gs EXCEPT ![g].pc = "out", ![g].found = ret'.found, ![g].ce = ret'.ce]
    /\ UNCHANGED <<mu, sw>>

\* mu.Unlock(), and the call returns
ConcUnlock(g) ==
    /\ gs[g].pc = "out"
    /\ mu' = IF mu = g THEN None ELSE mu
    /\ gs' = [gs EXCEPT ![g] = IdleCaller]
    /\ UNCHANGED <<backend, disk, root, aborted, ret, stored, cleared, store, now, loop,
                   putAt, sw>>

\* the timer of the cleanup loop fires and the loop takes the lock
SweepLock ==
    /\ sw = "sleep"
    /\ loop.state = "running" /\ ~loop.cancelled /\ now = loop.next
    /\ mu = None
    /\ mu' = Sweeper
    /\ sw' = "in"
    /\ UNCHANGED <<backend, disk, root, aborted, ret, stored, cleared, store, now, loop,
                   putAt, gs>>

\* the sweep, inside the lock
SweepBody ==
    /\ sw = "in"
    /\ CleanupWake
    /\ sw' = "out"
    /\ UNCHANGED <<gs, mu>>

SweepUnlock ==
    /\ sw = "out"
    /\ mu' = IF mu = Sweeper THEN None ELSE mu
    /\ sw' = "sleep"
    /\ UNCHANGED <<backend, disk, root, aborted, ret, stored, cleared, store, now, loop,
                   putAt, gs>>

\* time passes beside the callers
ConcTick == Tick /\ sw = "sleep" /\ UNCHANGED <<gs, mu, sw>>

ConcNext ==
    \/ \E g \in Goroutines, op \in Ops, k \in Keys, v \in {Plain, Bare} : ConcCall(g, op, k, v)
    \/ \E g \in Goroutines : ConcLock(g)
    \/ \E g \in Goroutines : ConcBody(g)
    \/ \E g \in Goroutines : ConcUnlock(g)
    \/ SweepLock
    \/ SweepBody
    \/ SweepUnlock
    \/ ConcTick

----------------------------------------------------------------------------
(* The disk backend over time and over constructions *)

\* the ttl NewCachingProxyServer gives to NewDeskCache, 1*time.Hour, in ticks
DeskTTL == 2
\* how many times the backend is constructed again
MaxInst == 2

NoFirst == [set |-> FALSE, res |-> [found |-> FALSE, ce |-> ZeroEntry], at |-> 0, id |-> 0]

PersistInit ==
    /\ dc = [TTL |-> DeskTTL, id |-> 0]
    /\ first = [k \in Keys |-> NoFirst]

\* NewDeskCache that empties the root it is given
NewDeskCacheWipes ==
    /\ backend = "disk" /\ ~aborted
    /\ dc.id < MaxInst
    /\ dc' = [TTL |-> DeskTTL, id |-> dc.id + 1]
    /\ disk' = [k \in Keys |-> NoDir]
    /\ ret' = [NoRet EXCEPT !.op = "New", !.err = ~root]
    /\ UNCHANGED <<backend, root, aborted, stored, cleared, store, now, loop, putAt, first>>

\* NewDeskCache(dirPath, port, ttl) on the root in use: validateDirPath wants
\* the directory to exist, os.MkdirAll of an existing directory does nothing
NewDeskCache ==
    /\ backend = "disk" /\ ~aborted
    /\ dc.id < MaxInst
    /\ IF root
       THEN /\ dc' = [TTL |-> DeskTTL, id |-> dc.id + 1]
            /\ ret' = [NoRet EXCEPT !.op = "New"]
       ELSE /\ dc' = dc
            /\ ret' = [NoRet EXCEPT !.op = "New", !.err = TRUE]
    /\ UNCHANGED <<backend, disk, root, aborted, stored, cleared, store, now, loop, putAt,
                   first>>

\* dc.Set(k, e), and the result of the Get that would follow it at once
PersistSet(k, e) ==
    /\ \E failAt \in 0..SetCalls : DeskSetWith(k, e, failAt)
    /\ first' = [first EXCEPT ![k] = [set |-> ~aborted', res |-> DeskCacheGet(disk'[k]),
                                       at |-> now, id |-> dc.id]]
    /\ UNCHANGED dc

PersistGet(k) == DeskGet(k) /\ UNCHANGED <<dc, first>>

PersistClear == DeskClear /\ first' = [k \in Keys |-> NoFirst] /\ UNCHANGED dc

\* time passes
DiskTick ==
    /\ backend = "disk" /\ ~aborted
    /\ now < MaxTime
    /\ now' = now + 1
    /\ ret' = NoRet
    /\ UNCHANGED <<backend, disk, root, aborted, stored, cleared, store, loop, putAt, dc, first>>

PersistNext ==
    \/ \E e \in Entries : PersistSet("GET-/a", e)
    \/ \E k \in Keys : PersistGet(k)
    \/ PersistClear
    \/ NewDeskCache
    \/ DiskTick

----------------------------------------------------------------------------
(* DeskCache.Get beside DeskCache.Set *)

\* DeskCache has no lock of its own (the "TODO: handle mutex" of the type):
\* two goroutines that call it directly interleave at every system call

\* the key both calls are about, and the entries written to it
RaceKey == "GET-/a"
RaceEntries == {Plain, Bare}

\* no call in progress; old is the entry under the key when Set was called
IdleSetter == [s |-> [SetStart(ZeroEntry, <<>>) EXCEPT !.pc = "idle"], old |-> NoEntry]
IdleGetter == [GetStart EXCEPT !.pc = "idle"]

RaceInit ==
    /\ setter = IdleSetter
    /\ getter = IdleGetter

\* the entry e1 is written first, by a Set nobody interferes with
RaceSeed(e1) ==
    /\ stored[RaceKey] = NoEntry /\ ~disk[RaceKey].dir
    /\ setter = IdleSetter
    /\ DeskSetWith(RaceKey, e1, 0)
    /\ UNCHANGED <<setter, getter>>

\* one goroutine calls dc.Set(RaceKey, e2) over the existing entry
RaceSetCall(e2) ==
    /\ backend = "disk" /\ ~aborted
    /\ stored[RaceKey] # NoEntry
    /\ setter = IdleSetter
    /\ \E o \in NameOrders(e2.Headers) :
         setter' = [s |-> SetStart(e2, HeadersStr(e2.Headers, o)), old |-> stored[RaceKey]]
    /\ ret' = NoRet
    /\ UNCHANGED <<backend, disk, root, aborted, stored, cleared, store, now, loop, putAt,
                   getter>>

\* the next system call of the Set: MkdirAll, os.Create or WriteString
RaceSetStep ==
    /\ backend = "disk" /\ ~aborted
    /\ setter.s.pc \in {"mkdir", "create", "write"}
    /\ \E r \in {SetStep(setter.s, disk[RaceKey], TRUE)} :
         /\ setter' = [setter EXCEPT !.s = r.s]
         /\ disk' = [disk EXCEPT ![RaceKey] = r.d]
         /\ stored' = [stored EXCEPT ![RaceKey] = IF r.s.pc = "done" THEN r.s.val ELSE @]
         /\ ret' = IF r.s.pc = "done"
                    THEN [NoRet EXCEPT !.op = "Set", !.key = RaceKey, !.err = r.s.err]
                    ELSE NoRet
    /\ UNCHANGED <<backend, root, aborted, cleared, store, now, loop, putAt, getter>>

\* another goroutine calls dc.Get(RaceKey)
RaceGetCall ==
    /\ backend = "disk" /\ ~aborted
    /\ setter # IdleSetter
    /\ getter.pc = "idle"
    /\ getter' = GetStart
    /\ ret' = NoRet
    /\ UNCHANGED <<backend, disk, root, aborted, stored, cleared, store, now, loop, putAt,
                   setter>>

\* the next os.ReadFile of the Get, with the statements that follow it
RaceGetStep ==
    /\ backend = "disk" /\ ~aborted
    /\ getter.pc \in {"readStatus", "readHeaders", "readBody"}
    /\ \E g \in {GetStep(getter, disk[RaceKey], TRUE)} :
         /\ getter' = g
         /\ ret' = IF g.pc = "done"
                    THEN [NoRet EXCEPT !.op = "Get", !.key = RaceKey, !.found = g.found,
                                       !.ce = IF g.found THEN g.ce ELSE ZeroEntry]
                    ELSE NoRet
    /\ UNCHANGED <<backend, disk, root, aborted, stored, cleared, store, now, loop, putAt,
                   setter>>

\* the caller has its answer and may call Get again
RaceGetReturn ==
    /\ getter.pc = "done"
    /\ getter' = IdleGetter
    /\ ret' = NoRet
    /\ UNCHANGED <<backend, disk, root, aborted, stored, cleared, store, now, loop, putAt,
                   setter>>

RaceNext ==
    \/ \E e1 \in RaceEntries : RaceSeed(e1)
    \/ \E e2 \in RaceEntries : RaceSetCall(e2)
    \/ RaceSetStep
    \/ RaceGetCall
    \/ RaceGetStep
    \/ RaceGetReturn

----------------------------------------------------------------------------
(* NewCachingProxyServer *)

\* before the first statement: no cache, no error, no server
NoCtor == [pc |-> "start", err |-> FALSE, cache |-> "none", used |-> FALSE,
           server |-> FALSE]
\* NewCachingProxyServer has returned a server
Constructed == [pc |-> "returned", err |-> FALSE, cache |-> "ok", used |-> FALSE,
                server |-> TRUE]
\* no cleanup loop has been started
NoLoop == [state |-> "none", next |-> 0, cancelled |-> FALSE, cancelAt |-> 0, sweeps |-> 0]

\* the specifications of the running server start after a construction that
\* succeeded
CtorInit == ctor = Constructed

\* cache, err := cache.NewTTL[string, *CacheEntry](cacheTTL, false)
NewTTL ==
    /\ backend = "ttl" /\ ctor.pc = "start"
    /\ \E ok \in BOOLEAN :
         ctor' = [ctor EXCEPT !.pc = "schedule", !.err = ~ok,
                              !.cache = IF ok THEN "ok" ELSE "failed"]
    /\ UNCHANGED <<backend, disk, root, aborted, ret, stored, cleared, store, now, loop,
                   putAt>>

\* cache.ScheduleCleanup(context.Background(), cacheTTL), called before err is
\* looked at.  On the value a failed NewTTL returned the call either starts
\* the loop or, the value being nil, panics.
ScheduleCleanup ==
    /\ backend = "ttl" /\ ctor.pc = "schedule"
    /\ \/ /\ loop' = LoopStart(now)
          /\ ctor' = [ctor EXCEPT !.pc = "check", !.used = (ctor.cache = "failed")]
       \/ /\ ctor.cache = "failed"
          /\ loop' = loop
          /\ ctor' = [ctor EXCEPT !.pc = "panicked", !.used = TRUE]
    /\ UNCHANGED <<backend, disk, root, aborted, ret, stored, cleared, store, now, putAt>>

\* cache, err := NewDeskCache(".", port, 1*time.Hour): fails when the root
\* cannot be examined or is no directory, or when MkdirAll fails
NewDeskCacheCall ==
    /\ backend = "disk" /\ ctor.pc = "start"
    /\ \E ok \in BOOLEAN :
         ctor' = [ctor EXCEPT !.pc = "check", !.err = ~(ok /\ root),
                              !.cache = IF ok /\ root THEN "ok" ELSE "failed"]
    /\ UNCHANGED <<backend, disk, root, aborted, ret, stored, cleared, store, now, loop,
                   putAt>>

\* if err != nil { return nil, fmt.Errorf(...) }; return &CachingProxyServer{...}, nil
CheckErr ==
    /\ ctor.pc = "check"
    /\ ctor' = [ctor EXCEPT !.pc = "returned", !.server = ~ctor.err]
    /\ UNCHANGED <<backend, disk, root, aborted, ret, stored, cleared, store, now, loop,
                   putAt>>

CtorNext ==
    \/ NewTTL
    \/ ScheduleCleanup
    \/ NewDeskCacheCall
    \/ CheckErr

\* server.Run() on the server NewCachingProxyServer returned
Serve == ctor.pc = "returned" /\ ctor.server /\ ProxyNext /\ UNCHANGED ctor

----------------------------------------------------------------------------
(* Specifications *)

vars == <<backend, dirPath, disk, root, aborted, ret, stored, cleared, store, now, loop, putAt,
          hs, rw, gs, mu, sw, dc, first, setter, getter, ctor>>

\* the build with the TTL store has no DeskCache
InitBackend ==
    \/ backend = "disk" /\ dirPath \in DirPaths
    \/ backend = "ttl" /\ dirPath = None

Init == InitBackend /\ DiskInit /\ TTLInit /\ ProxyInit /\ ConcInit /\ PersistInit /\ RaceInit /\ CtorInit
Next == (DiskNext \/ TTLNext) /\ UNCHANGED <<dc, first, setter, getter, ctor, dirPath, hs, rw, gs, mu, sw>>
\* either backend, called by one caller at a time
Spec == Init /\ [][Next]_vars

InitDisk == backend = "disk" /\ dirPath \in DirPaths /\ DiskInit /\ TTLInit /\ ProxyInit /\ ConcInit /\ PersistInit /\ RaceInit /\ CtorInit
NextDisk == DiskNext /\ UNCHANGED <<dc, first, setter, getter, ctor, dirPath, hs, rw, gs, mu, sw>>
\* the disk backend alone
SpecDisk == InitDisk /\ [][NextDisk]_vars

InitTTL == backend = "ttl" /\ dirPath = None /\ DiskInit /\ TTLInit /\ ProxyInit /\ ConcInit /\ PersistInit /\ RaceInit /\ CtorInit
NextTTL == TTLNext /\ UNCHANGED <<dc, first, setter, getter, ctor, dirPath, hs, rw, gs, mu, sw>>
\* the TTL store alone
SpecTTL == InitTTL /\ [][NextTTL]_vars

\* NewCachingProxyServer: cache.NewTTL(cacheTTL, false) with ScheduleCleanup,
\* or NewDeskCache(".", port, 1*time.Hour)
InitProxy ==
    /\ \/ backend = "disk" /\ dirPath = "."
       \/ backend = "ttl" /\ dirPath = None
    /\ DiskInit /\ TTLInit /\ ProxyInit /\ ConcInit /\ PersistInit /\ RaceInit /\ CtorInit
NextProxy == ProxyNext /\ UNCHANGED <<dc, first, setter, getter, ctor, dirPath, gs, mu, sw>>
\* the server of either build under concurrent requests
SpecProxy == InitProxy /\ [][NextProxy]_vars

NextConc == ConcNext /\ UNCHANGED <<dc, first, setter, getter, ctor, dirPath, hs, rw>>
\* a goroutine that wants the mutex gets it (sync.Mutex hands the lock to a
\* waiter that starves), and a goroutine that has it goes on
ConcFairness ==
    /\ \A g \in Goroutines :
         /\ SF_vars(ConcLock(g) /\ UNCHANGED <<dc, first, setter, getter, ctor, dirPath, hs, rw>>)
         /\ WF_vars(ConcBody(g) /\ UNCHANGED <<dc, first, setter, getter, ctor, dirPath, hs, rw>>)
         /\ WF_vars(ConcUnlock(g) /\ UNCHANGED <<dc, first, setter, getter, ctor, dirPath, hs, rw>>)
    /\ WF_vars(SweepBody /\ UNCHANGED <<dc, first, setter, getter, ctor, dirPath, hs, rw>>)
    /\ WF_vars(SweepUnlock /\ UNCHANGED <<dc, first, setter, getter, ctor, dirPath, hs, rw>>)
\* the TTL store under concurrent callers and the cleanup loop
SpecConc == InitTTL /\ [][NextConc]_vars /\ ConcFairness

NextPersist == PersistNext /\ UNCHANGED <<setter, getter, ctor, dirPath, hs, rw, gs, mu, sw>>
\* the disk backend with the clock and with constructions on the same root
SpecPersist == InitDisk /\ [][NextPersist]_vars

\* the key of the round trip
RTKey == "GET-/a"

\* Set of any entry into a fresh directory, every system call succeeding
RoundTripSet ==
    /\ stored[RTKey] = NoEntry /\ ~disk[RTKey].dir
    /\ \E e \in CacheEntry : DeskSetWith(RTKey, e, 0)

\* the Get that follows immediately
RoundTripGet ==
    /\ ret.op = "Set" /\ ret.key = RTKey
    /\ DeskGetWith(RTKey, 0)

InitRoundTrip == backend = "disk" /\ dirPath = "." /\ DiskInit /\ TTLInit /\ ProxyInit /\ ConcInit /\ PersistInit /\ RaceInit /\ CtorInit
RoundTripNext == (RoundTripSet \/ RoundTripGet) /\ UNCHANGED <<dc, first, setter, getter, ctor, dirPath, hs, rw, gs, mu, sw>>
\* Set then Get on the disk backend, over every entry of CacheEntry
SpecRoundTrip == InitRoundTrip /\ [][RoundTripNext]_vars

NextRace == RaceNext /\ UNCHANGED <<dc, first, ctor, dirPath, hs, rw, gs, mu, sw>>
\* one Set and the Gets of another goroutine on the same key of the disk backend
SpecRace == InitRoundTrip /\ [][NextRace]_vars

InitStart ==
    /\ \/ backend = "disk" /\ dirPath = "."
       \/ backend = "ttl" /\ dirPath = None
    /\ DiskInit /\ ProxyInit /\ ConcInit /\ PersistInit /\ RaceInit
    /\ store = [k \in Keys |-> NoRecord]
    /\ now = 0
    /\ loop = NoLoop
    /\ putAt = [k \in Keys |-> 0]
    /\ ctor = NoCtor
NextStart ==
    \/ CtorNext /\ UNCHANGED <<dc, first, setter, getter, dirPath, hs, rw, gs, mu, sw>>
    \/ Serve /\ UNCHANGED <<dc, first, setter, getter, dirPath, gs, mu, sw>>
\* main: NewCachingProxyServer, and the server when one was returned
SpecStart == InitStart /\ [][NextStart]_vars

----------------------------------------------------------------------------
(* Properties *)

\* what a Get(k) made in the current state returns (no read error)
CacheGet(k) == IF backend = "disk" THEN DeskCacheGet(disk[k]) ELSE Lookup(store, k, now)

\* C1: in the TTL store with TTL d, a Get(key) at time t after the most recent
\* Put(key, v) at time t0, with no Clear in between, returns (v, true) when
\* t < t0 + d and not-found when t >= t0 + d, swept or not; a later Put of
\* the key restarts the interval.
C1_GetWithinTTL ==
    (ret.op = "Get" /\ stored[ret.key] # NoEntry) =>
        IF now < putAt[ret.key] + CacheTTL
        THEN ret.found /\ ret.ce = stored[ret.key]
        ELSE ~ret.found

\* a Get finds an expired record still in the map and reports not-found
C1_Witness ==
    /\ ret.op = "Get" /\ ~ret.found
    /\ store[ret.key].has /\ stored[ret.key] # NoEntry
    /\ now >= putAt[ret.key] + CacheTTL

\* C2: on the disk backend, Set(key, entry) followed immediately by Get(key)
\* returns found with an entry equal to the stored one in status code, body
\* and headers, for every entry: values with commas or newlines and names
\* with an empty value list included.
C2_RoundTrip ==
    (ret.op = "Get" /\ backend = "disk" /\ ret.failAt = 0 /\ stored[ret.key] # NoEntry) =>
        ret.found /\ ret.ce = stored[ret.key]

\* C3: a GET request whose cache lookup reports a live entry is answered from
\* the cache with no upstream request for it; an upstream request is made
\* only after the lookup of that request reported a miss, or for a method
\* other than GET.
C3_HitSkipsUpstream ==
    \A h \in Handlers :
        /\ hs[h].fetched =>
              /\ hs[h].ok # "none"
              /\ (hs[h].ok = "miss" \/ hs[h].method # "GET")
        /\ (hs[h].ok = "hit" /\ hs[h].method = "GET") =>
              /\ ~hs[h].fetched
              /\ hs[h].pc \in {"hit", "done", "panicked"}
              /\ hs[h].pc = "done" =>
                    /\ hs[h].w.xcache = "HIT"
                    /\ hs[h].w.status = hs[h].e.StatusCode
                    /\ hs[h].w.body = hs[h].e.Body

\* a GET was answered from the cache, and no upstream request was made for it
C3_Witness ==
    \E h \in Handlers :
        /\ hs[h].pc = "done" /\ hs[h].method = "GET" /\ hs[h].ok = "hit"
        /\ hs[h].w.xcache = "HIT" /\ ~hs[h].fetched

\* C4: disk Get(key) returns not-found whenever one of the three files of the
\* key is missing or unreadable, for every subset of missing files, and a
\* found entry is built from all three files.
C4_PartialIsMiss ==
    ret.op = "Get" /\ backend = "disk" =>
        LET d == disk[ret.key]
        IN  /\ ((\E f \in Files : d[f] = NoFile) \/ ret.failAt # 0) => ~ret.found
            /\ ret.found => ret.ce = [StatusCode |-> Atoi(d.status),
                                      Headers |-> ParseHeaders(d.headers),
                                      Body |-> d.body]

\* status and body are there, headers is not: Get reported not-found
C4_Witness ==
    /\ ret.op = "Get" /\ backend = "disk" /\ ret.failAt = 0 /\ ~ret.found
    /\ disk[ret.key].status # NoFile
    /\ disk[ret.key].headers = NoFile
    /\ disk[ret.key].body # NoFile

\* C5: concurrent Put, Get and Clear calls and the background sweep on one
\* TTL store with overlapping keys never deadlock and never corrupt the map:
\* no two of them are in the map at once, every Get returns not-found or
\* exactly the value a Put stored for the key, and every call completes.
C5_ConcurrentSafe ==
    /\ [](Cardinality({g \in Goroutines : gs[g].pc \in {"in", "out"}}
                      \cup (IF sw \in {"in", "out"} THEN {Sweeper} ELSE {})) <= 1)
    /\ [](\A g \in Goroutines :
            (gs[g].pc = "out" /\ gs[g].op = "Get" /\ gs[g].found) =>
                gs[g].ce = stored[gs[g].key])
    /\ \A g \in Goroutines : (gs[g].pc # "idle") ~> (gs[g].pc = "idle")

\* a Get has its answer while another caller and the sweep wait for the lock
C5_Witness ==
    \E g, o \in Goroutines :
        /\ gs[g].pc = "out" /\ gs[g].op = "Get" /\ gs[g].found
        /\ gs[o].pc = "lock" /\ gs[o].key = gs[g].key /\ gs[o].op = "Put"
        /\ sw = "sleep" /\ now = loop.next

\* C6: a Set(key, e) that completed before a Get(key) begins, with no Clear,
\* expiry or other Set of the key in between, makes the Get return exactly e,
\* with nothing left over from an earlier entry of the key.
C6_SetVisible ==
    \A k \in Keys :
        (stored[k] # NoEntry /\ (backend = "ttl" => now < putAt[k] + CacheTTL)) =>
            CacheGet(k) = [found |-> TRUE, ce |-> stored[k]]

\* C7: Clear() returns no error, also on an empty store or root and twice in
\* a row; afterwards Get reports not-found for every key stored before, until
\* a later Set/Put stores the key again, and then Get finds it.
C7_ClearEmpties ==
    /\ ret.op = "Clear" => ~ret.err
    /\ \A k \in cleared : ~CacheGet(k).found
    /\ (ret.op \in {"Set", "Put"} /\ ~ret.err) => CacheGet(ret.key).found

C9_CancelStopsSweeps ==
    /\ [][loop.cancelled => loop'.sweeps = loop.sweeps]_vars
    /\ [](loop.cancelled /\ loop.state = "running" => now <= loop.cancelAt + Interval)
    /\ []((loop.cancelled /\ ret.op = "Get" /\ stored[ret.key] # NoEntry) =>
            IF now < putAt[ret.key] + CacheTTL
            THEN ret.found /\ ret.ce = stored[ret.key]
            ELSE ~ret.found)
    /\ []((loop.cancelled /\ ret.op = "Put") =>
            store[ret.key] = NewRecord(stored[ret.key], now))

\* the loop has ended, a sweep would have been due, and a Get of an expired
\* record still in the map reported not-found
C9_Witness ==
    /\ loop.cancelled /\ loop.state = "stopped" /\ now >= loop.next
    /\ ret.op = "Get" /\ ~ret.found /\ store[ret.key].has

\* C10: an I/O failure in disk Set, in creating the directory or in writing
\* one of the three files, is returned to the caller as an error and never
\* ends the process.
C10_SetFailureReturned ==
    /\ ~aborted
    /\ (ret.op = "Set" /\ ret.failAt # 0) => ret.err

\* the upstream fetch of the request h handles returned a response
FetchSucceeded(h) ==
    /\ hs[h].fetched /\ hs[h].e # ZeroEntry
    /\ hs[h].pc \in {"lock", "lockwait", "store", "unlock", "fatal", "done"}

\* C11: a failure of the cache, in the lookup or in the write, never turns a
\* successful upstream response into an error the client sees: when the fetch
\* returned a response the client gets its status code and body, and the
\* server keeps running; at worst the response is not cached.
C11_CacheFailureHarmless ==
    /\ ~aborted
    /\ \A h \in Handlers :
          FetchSucceeded(h) =>
              /\ hs[h].w.status = hs[h].e.StatusCode
              /\ hs[h].w.body = hs[h].e.Body

\* C12: the disk backend enforces no expiry and keeps no state outside the
\* file system: with the files left alone by other processes and every read
\* succeeding, each Get(key) after Set(key, e), however much later (also later
\* than the TTL field) and from the same or a newly constructed backend on
\* the same root, returns what a Get right after the Set returns, until a
\* Clear or another Set of the key.
C12_NoExpiryNoHiddenState ==
    (ret.op = "Get" /\ ret.failAt = 0 /\ first[ret.key].set) =>
        [found |-> ret.found, ce |-> ret.ce] = first[ret.key].res

\* an entry is found later than its TTL by a backend constructed after the Set
C12_Witness ==
    /\ ret.op = "Get" /\ ret.failAt = 0 /\ ret.found
    /\ first[ret.key].set
    /\ now > first[ret.key].at + dc.TTL
    /\ dc.id > first[ret.key].id

\* the request h handles has a method other than GET
NotGet(h) == hs[h].method \in Methods \ {"GET"}

\* C13: caching is GET-only: a request with another method is never answered
\* from the cache and never changes it; it takes the way to the upstream, and
\* every cache entry is the same after each of its steps as before.
C13_GetOnly ==
    /\ [](\A h \in Handlers :
            NotGet(h) =>
                /\ hs[h].pc \notin {"hit", "lock", "lockwait", "store", "unlock", "fatal"}
                /\ rw.writer # h
                /\ hs[h].pc = "done" => hs[h].w.xcache = "MISS")
    /\ [][\A h \in Handlers :
            (NotGet(h) /\ hs'[h] # hs[h]) =>
                /\ disk' = disk /\ store' = store /\ aborted' = aborted]_vars

\* a POST was answered by the upstream while the GET entry of the path is stored
C13_Witness ==
    \E h \in Handlers :
        /\ hs[h].pc = "done" /\ hs[h].method = "POST" /\ hs[h].fetched
        /\ hs[h].w.xcache = "MISS" /\ hs[h].w.status = hs[h].e.StatusCode
        /\ stored[Key("GET", hs[h].path)] # NoEntry

\* the cache holds entry e under key k
CacheHolds(k, e) ==
    IF backend = "disk"
    THEN DeskCacheGet(disk[k]) = [found |-> TRUE, ce |-> e]
    ELSE store[k].has /\ store[k].value = e

\* C14: on a GET miss the cache is written only with the successful result of
\* the upstream fetch: when the fetch returned a response, the cache holds,
\* once the handler is through its write, an entry for the key with the status
\* code, headers and body of the response; when building the request, sending
\* it or reading its body failed, the handler leaves the cache as it was.
C14_MissWritesResult ==
    /\ [][\A h \in Handlers :
            (hs[h].pc = "store" /\ hs'[h].pc # "store") =>
                /\ hs'[h].pc = "unlock"
                /\ CacheHolds(HKey(h), hs[h].e)']_vars
    /\ [][\A h \in Handlers :
            (hs[h].pc = "fetch" /\ hs'[h].pc = "done") =>
                /\ disk' = disk /\ store' = store]_vars

\* C15: a Get(key) of the disk backend that runs beside a Set(key, e2) over an
\* existing entry e1 never hands corrupt data to its caller: it returns
\* not-found, or exactly e1, or exactly e2, never a mix of the files of both
\* and never what it read from a file truncated and not yet written.
C15_RaceNeverCorrupt ==
    (getter.pc = "done" /\ getter.found) =>
        \/ getter.ce = setter.old
        \/ getter.ce = setter.s.val

\* the response r carries the status code, every header and the body of entry e
Carries(r, e) ==
    /\ r.status = e.StatusCode
    /\ r.body = e.Body
    /\ \A n \in DOMAIN e.Headers :
          n \in DOMAIN r.headers /\ r.headers[n] = e.Headers[n]

\* C16: on a cache hit the client receives X-Cache: HIT with the status code,
\* every header and the body of the stored entry; on a miss with a successful
\* upstream fetch it receives X-Cache: MISS with the status code, every header
\* and the body of the upstream response.
C16_ResponseComplete ==
    \A h \in Handlers :
        /\ (hs[h].pc = "done" /\ hs[h].method = "GET" /\ hs[h].ok = "hit") =>
              hs[h].w.xcache = "HIT" /\ Carries(hs[h].w, hs[h].e)
        /\ FetchSucceeded(h) =>
              hs[h].w.xcache = "MISS" /\ Carries(hs[h].w, hs[h].e)

\* handler h holds cps.mu, for reading or for writing
HoldsLock(h) == h \in rw.readers \/ rw.writer = h

\* C17: the read-write lock of the handler makes every cache write exclusive
\* of every cache read and of every other cache write, it is released on
\* every path out of the handler, and it is not held during the upstream
\* fetch, so that no set of concurrent requests can block each other for ever.
C17_LockDiscipline ==
    /\ \A h, o \in Handlers :
          (h # o /\ hs[o].pc \in {"store", "unlock"}) =>
              hs[h].pc \notin {"get", "hit", "store", "unlock"}
    /\ \A h \in Handlers :
          /\ hs[h].pc \in {"get", "hit"} => h \in rw.readers
          /\ hs[h].pc \in {"store", "unlock"} => rw.writer = h
          /\ hs[h].pc \in {"runlock", "store", "unlock"} => HoldsLock(h)
          /\ hs[h].pc \in {"fetch", "lock", "lockwait"} => ~HoldsLock(h)
          /\ hs[h].pc \in {"idle", "done", "panicked"} => ~HoldsLock(h)

\* what is under key k is what one write of entry e leaves there, and nothing
\* of an earlier entry
WrittenBy(k, e) ==
    IF backend = "disk"
    THEN /\ disk[k].dir
         /\ disk[k].status = Itoa(e.StatusCode)
         /\ disk[k].body = e.Body
         /\ \E o \in NameOrders(e.Headers) : disk[k].headers = HeadersStr(e.Headers, o)
    ELSE store[k].has /\ store[k].value = e

\* C18: requests are not coalesced: two concurrent GET requests for one key
\* that both miss each fetch from the upstream and each write the cache, and
\* the entry left in the cache is the one written last: every write that
\* succeeds replaces what the key had with its own entry.
C18_LastWriteWins ==
    [][\A h \in Handlers :
          (hs[h].pc = "store" /\ hs'[h].pc = "unlock" /\ ~ret'.err) =>
              /\ WrittenBy(HKey(h), hs[h].e)'
              /\ stored'[HKey(h)] = hs[h].e]_vars

\* two requests for one key have both missed, both fetched and both written;
\* their responses differ and the cache has that of the second writer
C18_Witness ==
    \E h, o \in Handlers :
        /\ h # o
        /\ hs[h].method = "GET" /\ hs[o].method = "GET" /\ hs[h].path = hs[o].path
        /\ hs[h].ok = "miss" /\ hs[o].ok = "miss"
        /\ FetchSucceeded(h) /\ FetchSucceeded(o)
        /\ hs[h].pc = "done" /\ hs[o].pc = "unlock"
        /\ hs[h].e # hs[o].e
        /\ ~ret.err /\ ret.op \in {"Set", "Put"}
        /\ WrittenBy(HKey(o), hs[o].e)

\* C19: when the construction of the cache fails, NewCachingProxyServer
\* returns an error and no server, and before it returns it has neither
\* started a cleanup loop nor used the failed cache in any way.
C19_FailedConstruction ==
    ctor.err =>
        /\ ~ctor.used
        /\ loop.state = "none"
        /\ ctor.pc # "panicked"
        /\ ~ctor.server

====
